---- MODULE Spec2Model ----
(***************************************************************************)
(* Model of catalyst/exchange/data_portal_exchange.py: the data portal     *)
(* that partitions a history-window or spot-value query by exchange,       *)
(* dispatches it, merges the answers and retries ExchangeRequestError,     *)
(* and the backtest portal's bundle discovery and bar readers.             *)
(*                                                                         *)
(* The file is Python 2 (dict.keys()[0]): a plain dict iterates in hash    *)
(* order, not insertion order.  The order is unknown to the program, so    *)
(* it is an input, dict_order, fixed for the lifetime of the process.      *)
(***************************************************************************)
EXTENDS Integers, Sequences, FiniteSets, TLC

\* ---------------------------------------------------------------- bounds
MaxLen == 3          \* longest instrument list of a query
MaxLiveLen == 2      \* longest instrument list of a query under SpecLive
NumFolders == 4      \* bundle folder names that may exist under one exchange
MaxScan == 3         \* longest directory listing of one exchange
NumDates == 3        \* distinct ingestion timestamps the folder names decode to

\* ------------------------------------------------------ program constants
DefaultRetryGetHistoryWindow == 5
DefaultRetryGetSpotValue == 5
DefaultRetryDelay == 5

\* -------------------------------------------------------------- universes
ExchangeNames == {"bitfinex", "poloniex"}

\* TradingPair: an identifier (sid) and the name of the owning exchange.
TradingPairs ==
    { [sid |-> 1, exchange |-> "bitfinex"],
      [sid |-> 2, exchange |-> "bitfinex"],
      [sid |-> 3, exchange |-> "poloniex"] }

Fields == {"close", "volume"}
DataFrequencies == {"minute", "5-minute", "daily", "hourly"}

Folders == 1..NumFolders

RECURSIVE SeqsUpTo(_, _)
SeqsUpTo(S, n) ==
    IF n = 0 THEN { <<>> }
    ELSE LET shorter == SeqsUpTo(S, n - 1)
         IN  shorter \cup { Append(s, x) : s \in { t \in shorter : Len(t) = n - 1 }, x \in S }

Range(s) == { s[i] : i \in 1..Len(s) }
IsInjective(s) == \A i, j \in 1..Len(s) : s[i] = s[j] => i = j
Permutations_(S) == { s \in SeqsUpTo(S, Cardinality(S)) : Len(s) = Cardinality(S) /\ IsInjective(s) }

\* The value of the `assets` argument: a bare TradingPair (pair = TRUE, one
\* item) or a list of TradingPairs.
AssetLists == { [pair |-> FALSE, items |-> s] : s \in SeqsUpTo(TradingPairs, MaxLen) }
SinglePairs == { [pair |-> TRUE, items |-> <<a>>] : a \in TradingPairs }

\* The timestamp each folder name decodes to: not in name order, and with
\* names that decode to the same timestamp.
IngestDates == [ f \in Folders |-> (f % NumDates) + 1 ]

\* What os.listdir(data_path([bundle_name])) can give: OSError, or the
\* folder names in scan order.
Listings ==
    { [oserror |-> TRUE, folders |-> <<>>] }
    \cup { [oserror |-> FALSE, folders |-> s] : s \in { t \in SeqsUpTo(Folders, MaxScan) : IsInjective(t) } }

VARIABLES
    mode,                     \* "live" | "backtest": the class instantiated
    exchanges,                \* self.exchanges: the names it maps
    dict_order,               \* iteration order of a Python 2 dict over exchange names
    retry_get_history_window, \* self.retry_get_history_window
    retry_get_spot_value,     \* self.retry_get_spot_value
    retry_delay,              \* self.retry_delay
    listdir,                  \* the bundle directory of each exchange on disk
    ingest_date,              \* from_bundle_ingest_dirname: folder name -> timestamp
    daily_bar_readers,        \* self.daily_bar_readers: exchange -> folder opened
    five_minute_bar_readers,  \* self.five_minute_bar_readers
    minute_bar_readers,       \* self.minute_bar_readers
    ctor_error,               \* exchange named by BundleNotFoundError, "" if none
    pc,                       \* position of the single thread of control
    query,                    \* arguments of the top-level call in progress
    assets,                   \* current binding of the local variable `assets`
    attempt_index,            \* attempt_index of the innermost frame
    no_data,                  \* sids for which the selected reader's get_value raises
    reader_error,             \* what it raises for them, "" if for none
    calls,                    \* log of calls made to exchange handles / adapters
    reader_calls,             \* log of reader.get_value invocations (sids)
    attempts,                 \* number of try-bodies entered
    frame_assets,             \* the `assets` argument the latest frame was entered with
    outcomes,                 \* per try-body entered: what it raised, "" if it returned
    slept,                    \* number of sleep(self.retry_delay) calls made
    sleep_total,              \* total time slept
    result                    \* what the top-level call returned or raised

vars == << mode, exchanges, dict_order, retry_get_history_window, retry_get_spot_value,
           retry_delay, listdir, ingest_date, daily_bar_readers, five_minute_bar_readers,
           minute_bar_readers, ctor_error, pc, query, assets, attempt_index, no_data,
           reader_error, calls, reader_calls, attempts, frame_assets, outcomes, slept, sleep_total,
           result >>

config_vars == << mode, exchanges, dict_order, retry_get_history_window,
                  retry_get_spot_value, retry_delay, listdir, ingest_date >>
reader_vars == << daily_bar_readers, five_minute_bar_readers, minute_bar_readers, ctor_error >>
call_vars == << query, assets, attempt_index, no_data, reader_error, calls, reader_calls, attempts,
                frame_assets, outcomes, slept, sleep_total, result >>

\* ------------------------------------------------------------ Python dict
\* Keys of a dict over exchange names, in iteration order.
DictKeys(keys) == SelectSeq(dict_order, LAMBDA n : n \in keys)

\* ------------------------------------------------- bundle discovery (ctor)
\* most_recent_bundle is a dict folder -> date.
EmptyBundle == [ f \in {} |-> 0 ]
OneBundle(folder, date) == [ f \in {folder} |-> date ]

\* most_recent_bundle.keys()[0]: the key of a dict of one entry (the code
\* never holds more; of several, Python 2 gives the first in hash order).
FirstKey(d) == CHOOSE f \in DOMAIN d : TRUE

from_bundle_ingest_dirname(folder) == ingest_date[folder]

\* Variant: every folder scanned replaces the choice (no date comparison).
MostRecentStep_LastScanned(most_recent_bundle, folder) ==
    OneBundle(folder, from_bundle_ingest_dirname(folder))

\* Variant: a folder as recent as the one retained replaces it (>=).
MostRecentStep_GreaterOrEqual(most_recent_bundle, folder) ==
    LET date == from_bundle_ingest_dirname(folder)
    IN  IF DOMAIN most_recent_bundle = {}
           \/ date >= most_recent_bundle[FirstKey(most_recent_bundle)]
        THEN OneBundle(folder, date)
        ELSE most_recent_bundle

\* One iteration of the loop of find_most_recent_time (lines 291-296): the
\* dict is replaced by a fresh one holding folder -> date when it is empty
\* or the date is later than the one it holds.
MostRecentStep(most_recent_bundle, folder) ==
    LET date == from_bundle_ingest_dirname(folder)
    IN  IF DOMAIN most_recent_bundle = {}
           \/ date > most_recent_bundle[FirstKey(most_recent_bundle)]
        THEN OneBundle(folder, date)
        ELSE most_recent_bundle

RECURSIVE MostRecentScan(_, _)
MostRecentScan(most_recent_bundle, bundle_folders) ==
    IF bundle_folders = <<>> THEN most_recent_bundle
    ELSE MostRecentScan(MostRecentStep(most_recent_bundle, Head(bundle_folders)),
                        Tail(bundle_folders))

\* find_most_recent_time(bundle_name): the folder chosen, 0 for None.
find_most_recent_time(exchange_name) ==
    IF listdir[exchange_name].oserror THEN 0
    ELSE LET most_recent_bundle == MostRecentScan(EmptyBundle, listdir[exchange_name].folders)
         IN  IF DOMAIN most_recent_bundle # {} THEN FirstKey(most_recent_bundle) ELSE 0

\* DataPortalExchangeBacktest.__init__: the loop over self.exchanges, from
\* the names still to visit and the readers opened so far.
RECURSIVE OpenReaders(_, _)
OpenReaders(names, opened) ==
    IF names = <<>> THEN [error |-> "", readers |-> opened]
    ELSE LET exchange_name == Head(names)
             time_folder == find_most_recent_time(exchange_name)
         IN  IF time_folder = 0
             THEN [error |-> exchange_name, readers |-> opened]
             ELSE OpenReaders(Tail(names),
                    [ n \in DOMAIN opened \cup {exchange_name} |->
                        IF n = exchange_name
                        THEN [daily |-> time_folder, five_minute |-> time_folder,
                              minute |-> time_folder]
                        ELSE opened[n] ])

BacktestInit == OpenReaders(DictKeys(exchanges), << >>)

\* ------------------------------------------------------------ Python values
\* A Python value is a shape ("scalar" | "list" | "DataFrame") and the
\* elements it holds; a scalar holds one.
NoValue == [shape |-> "", val |-> <<>>]
Scalar(x) == [shape |-> "scalar", val |-> <<x>>]
List(s) == [shape |-> "list", val |-> s]
DataFrame(s) == [shape |-> "DataFrame", val |-> s]

Sids(items) == [ i \in 1..Len(items) |-> items[i].sid ]

\* None
None_ == [src |-> "None", exchange |-> "", snap |-> 0, of |-> <<>>, field |-> "", freq |-> ""]
\* a list stored as one element of another list
Nested == [src |-> "list", exchange |-> "", snap |-> 0, of |-> <<>>, field |-> "", freq |-> ""]

\* Errors.  `at` and `exchange` tell which attempt and which exchange
\* raised it (for ExchangeBarDataError: those of its `error` argument).
NoError == [type |-> "", data_type |-> "", attempts |-> 0, at |-> 0, exchange |-> ""]
Error(type, at, exchange) ==
    [type |-> type, data_type |-> "", attempts |-> 0, at |-> at, exchange |-> exchange]
ExchangeBarDataError(data_type, attempts_, e) ==
    [type |-> "ExchangeBarDataError", data_type |-> data_type, attempts |-> attempts_,
     at |-> e.at, exchange |-> e.exchange]

\* What an exchange handle can raise: the transient error, or anything else.
HandleErrors == {"ExchangeRequestError", "OtherError"}

\* What a reader's get_value can raise: nothing, its error for a missing
\* bar, or the transient error.
ReaderErrors == {"", "NoDataOnDate", "ExchangeRequestError"}

Return(v, reads) == [status |-> "return", value |-> v, exc |-> "", reads |-> reads]
Raise(type, reads) == [status |-> "raise", value |-> NoValue, exc |-> type, reads |-> reads]

\* ------------------------------------------------------- exchange handles
\* exchange.get_history_window(assets, ...): one table per call.
ExchangeHistoryWindow(name, as, field, freq) ==
    DataFrame(<< [src |-> "exchange", exchange |-> name, snap |-> 0, of |-> Sids(as.items),
                  field |-> field, freq |-> freq] >>)

ExchangeSpot(name, asset, field, freq) ==
    [src |-> "exchange", exchange |-> name, snap |-> 0, of |-> <<asset.sid>>,
     field |-> field, freq |-> freq]

\* exchange.get_spot_value(assets, ...): a scalar for one instrument, a
\* sequence in input order for several.
ExchangeSpotValue(name, as, field, freq) ==
    IF as.pair \/ Len(as.items) = 1
    THEN Scalar(ExchangeSpot(name, as.items[1], field, freq))
    ELSE List([ i \in 1..Len(as.items) |-> ExchangeSpot(name, as.items[i], field, freq) ])

\* `for asset in assets`: a list is iterable, a TradingPair is not.
IsIterable(as) == ~as.pair

\* ------------------------------------------------------- backend adapters
\* get_exchange_history_window of both portals: exchange.get_history_window.
\* raises: the error the handle raises in this call, "" if none.
get_exchange_history_window(name, as, field, freq, raises) ==
    IF raises # "" THEN Raise(raises, <<>>)
    ELSE Return(ExchangeHistoryWindow(name, as, field, freq), <<>>)

\* DataPortalExchangeLive.get_exchange_spot_value
LiveSpotValue(name, as, field, freq, raises) ==
    IF raises # "" THEN Raise(raises, <<>>)
    ELSE Return(ExchangeSpotValue(name, as, field, freq), <<>>)

\* reader.get_value(sid, dt, field) of the reader of `tier` opened for `name`
ReaderValue(tier, name, snap, sid, field) ==
    [src |-> tier, exchange |-> name, snap |-> snap, of |-> <<sid>>, field |-> field,
     freq |-> ""]

\* Variant: the handler lets the transient error through.
IsCaught_NotTransient(exc) == exc # "ExchangeRequestError"

\* line 343, `except Exception`: every exception get_value raises is caught.
IsCaught(exc) == exc \in ReaderErrors \ {""}

\* The values read so far, and what escaped the loop ("" if nothing).
Read(values, exc) == [values |-> values, exc |-> exc]

\* One iteration of the loop of lines 335-345: try get_value, append the
\* value, or None when it raises.
ReadOne(values, tier, name, snap, asset, field) ==
    IF asset.sid \in no_data
    THEN IF IsCaught(reader_error) THEN Read(Append(values, None_), "")
         ELSE Read(values, reader_error)
    ELSE Read(Append(values, ReaderValue(tier, name, snap, asset.sid, field)), "")

\* Variant: one try around the whole loop, so the first get_value that
\* raises ends the loop with a single None.
RECURSIVE ReadAll_TryAroundLoop(_, _, _, _, _, _)
ReadAll_TryAroundLoop(values, tier, name, snap, items, field) ==
    IF items = <<>> THEN [values |-> values, exc |-> ""]
    ELSE IF Head(items).sid \in no_data THEN [values |-> Append(values, None_), exc |-> ""]
    ELSE ReadAll_TryAroundLoop(Append(values, ReaderValue(tier, name, snap, Head(items).sid, field)),
                               tier, name, snap, Tail(items), field)

RECURSIVE ReadAll(_, _, _, _, _, _)
ReadAll(values, tier, name, snap, items, field) ==
    IF items = <<>> THEN Read(values, "")
    ELSE LET r == ReadOne(values, tier, name, snap, Head(items), field)
         IN  IF r.exc # "" THEN r
             ELSE ReadAll(r.values, tier, name, snap, Tail(items), field)

\* lines 347-350
SpotShape(as, values) ==
    IF Len(as.items) = 1 THEN Scalar(values[1]) ELSE List(values)

\* Variant: an unknown frequency falls back to the daily reader.
ReaderTier_DefaultDaily(data_frequency) ==
    CASE data_frequency = "minute" -> "minute"
      [] data_frequency = "5-minute" -> "five_minute"
      [] OTHER -> "daily"

\* lines 325-332: the reader dict the frequency selects, "" if unsupported
ReaderTier(data_frequency) ==
    CASE data_frequency = "minute" -> "minute"
      [] data_frequency = "5-minute" -> "five_minute"
      [] data_frequency = "daily" -> "daily"
      [] OTHER -> ""

ReaderDict(tier) ==
    CASE tier = "minute" -> minute_bar_readers
      [] tier = "five_minute" -> five_minute_bar_readers
      [] OTHER -> daily_bar_readers

\* DataPortalExchangeBacktest.get_exchange_spot_value
BacktestSpotValue(name, as, field, freq) ==
    LET tier == ReaderTier(freq)
    IN  IF tier = "" THEN Raise("ValueError", <<>>)
        ELSE IF name \notin DOMAIN ReaderDict(tier) THEN Raise("KeyError", <<>>)
        ELSE IF ~IsIterable(as) THEN Raise("TypeError", <<>>)
        ELSE LET r == ReadAll(<<>>, tier, name, ReaderDict(tier)[name], as.items, field)
             IN  IF r.exc # ""
                 THEN Raise(r.exc, Sids(SubSeq(as.items, 1, Len(r.values) + 1)))
                 ELSE Return(SpotShape(as, r.values), Sids(as.items))

get_exchange_spot_value(name, as, field, freq, raises) ==
    IF mode = "live" THEN LiveSpotValue(name, as, field, freq, raises)
    ELSE BacktestSpotValue(name, as, field, freq)

\* ------------------------------------------------ partition/dispatch/merge
\* lines 59-64 and 156-161: the dict exchange_assets built from a list.
ExchangeAssets(items) ==
    [ n \in { items[i].exchange : i \in 1..Len(items) } |->
        SelectSeq(items, LAMBDA a : a.exchange = n) ]

\* The exchange names of a list in the order each is first seen.
RECURSIVE FirstSeen(_)
FirstSeen(items) ==
    IF items = <<>> THEN <<>>
    ELSE LET rest == FirstSeen(SelectSeq(Tail(items), LAMBDA a : a.exchange # Head(items).exchange))
         IN  <<Head(items).exchange>> \o rest

\* `for exchange_name in exchange_assets`: the keys in dict iteration order.
DispatchOrder(exchange_assets) == DictKeys(DOMAIN exchange_assets)

CallRecord(op, name, as, field, freq, r) ==
    [attempt |-> attempt_index, op |-> op, exchange |-> name, assets |-> as,
     field |-> field, freq |-> freq, outcome |-> IF r.status = "return" THEN "return" ELSE r.exc,
     value |-> r.value]

\* What the try-body of an attempt ends with.
Outcome(status, value, exc, raiser, log, reads, as) ==
    [status |-> status, value |-> value, exc |-> exc, raiser |-> raiser, calls |-> log,
     reads |-> reads, assets |-> as]

\* Variant: `spot_values = x` where the code has `spot_values += x`.
MergeSpot_Assign(spot_values, as, x) ==
    IF Len(as.items) = 1
    THEN [ok |-> TRUE, val |-> Append(spot_values, IF x.shape = "scalar" THEN x.val[1] ELSE Nested)]
    ELSE IF x.shape = "list" THEN [ok |-> TRUE, val |-> x.val]
         ELSE [ok |-> FALSE, val |-> spot_values]

\* Variant: each exchange's values go in front of those merged before.
MergeSpot_Prepend(spot_values, as, x) ==
    IF Len(as.items) = 1
    THEN [ok |-> TRUE, val |-> <<IF x.shape = "scalar" THEN x.val[1] ELSE Nested>> \o spot_values]
    ELSE IF x.shape = "list" THEN [ok |-> TRUE, val |-> x.val \o spot_values]
         ELSE [ok |-> FALSE, val |-> spot_values]

\* lines 180-183: spot_values.append(x) for one instrument, spot_values += x else.
MergeSpot(spot_values, as, x) ==
    IF Len(as.items) = 1
    THEN [ok |-> TRUE, val |-> Append(spot_values, IF x.shape = "scalar" THEN x.val[1] ELSE Nested)]
    ELSE IF x.shape = "list" THEN [ok |-> TRUE, val |-> spot_values \o x.val]
         ELSE [ok |-> FALSE, val |-> spot_values]

\* lines 169-185: the loop over the exchanges of a multi-exchange spot query,
\* from iteration i on.  fail: the dispatch of this attempt whose exchange
\* handle raises (at = 0: none) and what it raises.
RECURSIVE SpotLoop(_, _, _, _, _, _, _, _, _)
SpotLoop(names, i, exchange_assets, spot_values, log, reads, as, q, fail) ==
    IF i > Len(names) THEN Outcome("return", List(spot_values), "", "", log, reads, as)
    ELSE LET exchange_name == names[i] IN
         IF exchange_name \notin exchanges
         THEN Outcome("raise", NoValue, "KeyError", exchange_name, log, reads, as)
         ELSE LET sub == [pair |-> FALSE, items |-> exchange_assets[exchange_name]]
                  r == get_exchange_spot_value(exchange_name, sub, q.field, q.data_frequency,
                                               IF fail.at = i THEN fail.type ELSE "")
                  log2 == Append(log, CallRecord("get_exchange_spot_value", exchange_name,
                                                 sub, q.field, q.data_frequency, r))
                  reads2 == reads \o r.reads
              IN  IF r.status = "raise"
                  THEN Outcome("raise", NoValue, r.exc, exchange_name, log2, reads2, sub)
                  ELSE LET m == MergeSpot(spot_values, sub, r.value)
                       IN  IF ~m.ok
                           THEN Outcome("raise", NoValue, "TypeError", exchange_name, log2,
                                        reads2, sub)
                           ELSE SpotLoop(names, i + 1, exchange_assets, m.val, log2, reads2,
                                         sub, q, fail)

\* One per-exchange dispatch outside the loops: self.exchanges[name], then
\* the call.
SingleSpot(exchange_name, as, q, fail) ==
    IF exchange_name \notin exchanges
    THEN Outcome("raise", NoValue, "KeyError", exchange_name, <<>>, <<>>, as)
    ELSE LET r == get_exchange_spot_value(exchange_name, as, q.field, q.data_frequency,
                                          IF fail.at = 1 THEN fail.type ELSE "")
         IN  Outcome(r.status, r.value, r.exc, IF r.status = "raise" THEN exchange_name ELSE "",
                     << CallRecord("get_exchange_spot_value", exchange_name, as, q.field,
                                   q.data_frequency, r) >>,
                     r.reads, as)

\* Variant: no single-exchange shortcut, every list goes through the merge loop.
SpotBody_AlwaysLoop(as, q, fail) ==
    IF as.pair THEN SingleSpot(as.items[1].exchange, as, q, fail)
    ELSE SpotLoop(DispatchOrder(ExchangeAssets(as.items)), 1, ExchangeAssets(as.items),
                  <<>>, <<>>, <<>>, as, q, fail)

\* lines 149-185: the try-body of _get_spot_value.
SpotBody(as, q, fail) ==
    IF as.pair THEN SingleSpot(as.items[1].exchange, as, q, fail)
    ELSE LET exchange_assets == ExchangeAssets(as.items)
             keys == DispatchOrder(exchange_assets)
         IN  IF Len(keys) = 1 THEN SingleSpot(keys[1], as, q, fail)
             ELSE SpotLoop(keys, 1, exchange_assets, <<>>, <<>>, <<>>, as, q, fail)

\* Variant: the table of the last exchange is returned in place of the
\* concatenation.
Concat_LastTable(df_list) == DataFrame(<< df_list[Len(df_list)] >>)

\* pd.concat(df_list)
Concat(df_list) == DataFrame(df_list)

\* lines 67-85: the loop of a multi-exchange history query, from iteration i.
RECURSIVE HistoryLoop(_, _, _, _, _, _, _, _)
HistoryLoop(names, i, exchange_assets, df_list, log, as, q, fail) ==
    IF i > Len(names) THEN Outcome("return", Concat(df_list), "", "", log, <<>>, as)
    ELSE LET exchange_name == names[i] IN
         IF exchange_name \notin exchanges
         THEN Outcome("raise", NoValue, "KeyError", exchange_name, log, <<>>, as)
         ELSE LET sub == [pair |-> FALSE, items |-> exchange_assets[exchange_name]]
                  r == get_exchange_history_window(exchange_name, sub, q.field,
                          q.data_frequency, IF fail.at = i THEN fail.type ELSE "")
                  log2 == Append(log, CallRecord("get_exchange_history_window",
                                   exchange_name, sub, q.field, q.data_frequency, r))
              IN  IF r.status = "raise"
                  THEN Outcome("raise", NoValue, r.exc, exchange_name, log2, <<>>, sub)
                  ELSE HistoryLoop(names, i + 1, exchange_assets, df_list \o r.value.val,
                                   log2, sub, q, fail)

\* Variant: an empty partition yields an empty table.
SingleHistory_EmptyFrame(keys, as, q, fail) ==
    IF keys = <<>> THEN Outcome("return", DataFrame(<<>>), "", "", <<>>, <<>>, as)
    ELSE IF keys[1] \notin exchanges
    THEN Outcome("raise", NoValue, "KeyError", keys[1], <<>>, <<>>, as)
    ELSE LET r == get_exchange_history_window(keys[1], as, q.field, q.data_frequency,
                                              IF fail.at = 1 THEN fail.type ELSE "")
         IN  Outcome(r.status, r.value, r.exc, IF r.status = "raise" THEN keys[1] ELSE "",
                     << CallRecord("exchange.get_history_window", keys[1], as, q.field,
                                   q.data_frequency, r) >>,
                     <<>>, as)

\* lines 88-96: the single-exchange branch calls the handle itself.
SingleHistory(keys, as, q, fail) ==
    IF keys = <<>> THEN Outcome("raise", NoValue, "IndexError", "", <<>>, <<>>, as)
    ELSE IF keys[1] \notin exchanges
    THEN Outcome("raise", NoValue, "KeyError", keys[1], <<>>, <<>>, as)
    ELSE LET r == get_exchange_history_window(keys[1], as, q.field, q.data_frequency,
                                              IF fail.at = 1 THEN fail.type ELSE "")
         IN  Outcome(r.status, r.value, r.exc, IF r.status = "raise" THEN keys[1] ELSE "",
                     << CallRecord("exchange.get_history_window", keys[1], as, q.field,
                                   q.data_frequency, r) >>,
                     <<>>, as)

\* lines 58-96: the try-body of _get_history_window.
HistoryBody(as, q, fail) ==
    LET exchange_assets == ExchangeAssets(as.items)
        keys == DispatchOrder(exchange_assets)
    IN  IF Len(keys) > 1
        THEN HistoryLoop(keys, 1, exchange_assets, <<>>, <<>>, as, q, fail)
        ELSE SingleHistory(keys, as, q, fail)

\* ------------------------------------------------------------ retry wrapper
NoResult == [status |-> "", value |-> NoValue, error |-> NoError]
Returned(v) == [status |-> "returned", value |-> v, error |-> NoError]
Raised(e) == [status |-> "raised", value |-> NoValue, error |-> e]

\* Variant: the limit test off by one (<=).
ShouldRetry_Inclusive(index, limit) == index <= limit

\* lines 102 and 191: whether the handler sleeps and calls itself again.
ShouldRetry(index, limit) == index < limit

\* Variant: a bare `except Exception` that retries whatever was raised.
ExceptHandler_CatchAll(o, data_type, limit) ==
    IF o.status = "return" THEN [pc |-> "done", result |-> [status |-> "returned", value |-> o.value, error |-> NoError]]
    ELSE IF ShouldRetry(attempt_index, limit)
         THEN [pc |-> "sleep", result |-> [status |-> "", value |-> NoValue, error |-> NoError]]
         ELSE [pc |-> "done",
               result |-> [status |-> "raised", value |-> NoValue,
                           error |-> ExchangeBarDataError(data_type, attempt_index,
                                        Error(o.exc, attempt_index, o.raiser))]]

\* Variant: the handler of _get_spot_value copied from _get_history_window
\* with its data_type left at 'history'.
ExceptHandler_HistoryTag(o, data_type, limit) ==
    IF o.status = "return" THEN [pc |-> "done", result |-> [status |-> "returned", value |-> o.value, error |-> NoError]]
    ELSE IF o.exc = "ExchangeRequestError"
    THEN IF ShouldRetry(attempt_index, limit)
         THEN [pc |-> "sleep", result |-> [status |-> "", value |-> NoValue, error |-> NoError]]
         ELSE [pc |-> "done",
               result |-> [status |-> "raised", value |-> NoValue,
                           error |-> ExchangeBarDataError("history", attempt_index,
                                        Error(o.exc, attempt_index, o.raiser))]]
    ELSE [pc |-> "done",
          result |-> [status |-> "raised", value |-> NoValue,
                      error |-> Error(o.exc, attempt_index, o.raiser)]]

\* lines 98-117 and 187-200: what an attempt's outcome leads to: only
\* ExchangeRequestError is caught; below the limit the frame sleeps and
\* recurses, at the limit it raises ExchangeBarDataError.
ExceptHandler(o, data_type, limit) ==
    IF o.status = "return" THEN [pc |-> "done", result |-> Returned(o.value)]
    ELSE IF o.exc = "ExchangeRequestError"
    THEN IF ShouldRetry(attempt_index, limit)
         THEN [pc |-> "sleep", result |-> NoResult]
         ELSE [pc |-> "done",
               result |-> Raised(ExchangeBarDataError(data_type, attempt_index,
                                    Error(o.exc, attempt_index, o.raiser)))]
    ELSE [pc |-> "done", result |-> Raised(Error(o.exc, attempt_index, o.raiser))]

\* The dispatches of an attempt that reach an exchange handle, which may raise.
NumHandleCalls(kind, as) ==
    IF kind = "spot" /\ mode = "backtest" THEN 0
    ELSE IF as.pair THEN 1
    ELSE Cardinality({ as.items[i].exchange : i \in 1..Len(as.items) })

Failures(kind, as) ==
    { [at |-> 0, type |-> ""] }
    \cup { [at |-> k, type |-> t] : k \in 1..NumHandleCalls(kind, as), t \in HandleErrors }

\* The bars the selected reader may lack: any of the instruments asked for.
NoData(as) ==
    IF mode = "backtest" THEN SUBSET { as.items[i].sid : i \in 1..Len(as.items) }
    ELSE { {} }

Query(kind, as, field, data_frequency) ==
    [kind |-> kind, assets |-> as, field |-> field, data_frequency |-> data_frequency]
NoQuery == Query("", [pair |-> FALSE, items |-> <<>>], "", "")

\* ------------------------------------------------------------------ actions
\* DataPortalExchangeBacktest.__init__ (lines 251-279)
Backtest__init__ ==
    /\ pc = "new"
    /\ LET r == BacktestInit
       IN  /\ ctor_error' = r.error
           /\ daily_bar_readers' = [ n \in DOMAIN r.readers |-> r.readers[n].daily ]
           /\ five_minute_bar_readers' = [ n \in DOMAIN r.readers |-> r.readers[n].five_minute ]
           /\ minute_bar_readers' = [ n \in DOMAIN r.readers |-> r.readers[n].minute ]
           /\ pc' = IF r.error = "" THEN "idle" ELSE "failed"
    /\ UNCHANGED << config_vars, call_vars >>

\* get_history_window (lines 119-133)
get_history_window(as, field, data_frequency) ==
    /\ pc = "idle"
    /\ query' = Query("history", as, field, data_frequency)
    /\ assets' = as
    /\ attempt_index' = 0
    /\ no_data' = {}
    /\ reader_error' = ""
    /\ pc' = "attempt"
    /\ UNCHANGED << config_vars, reader_vars, calls, reader_calls, attempts, frame_assets,
                    outcomes, slept, sleep_total, result >>

\* get_spot_value (lines 202-203).  nd: the instruments for which the
\* selected reader's get_value raises; re: what it raises.
get_spot_value(as, field, data_frequency, nd, re) ==
    /\ pc = "idle"
    /\ query' = Query("spot", as, field, data_frequency)
    /\ assets' = as
    /\ attempt_index' = 0
    /\ no_data' = nd
    /\ reader_error' = re
    /\ pc' = "attempt"
    /\ UNCHANGED << config_vars, reader_vars, calls, reader_calls, attempts, frame_assets,
                    outcomes, slept, sleep_total, result >>

\* One frame of _get_history_window (lines 49-117) up to its return, raise
\* or sleep.
_get_history_window(fail) ==
    /\ pc = "attempt"
    /\ query.kind = "history"
    /\ fail \in Failures("history", assets)
    /\ LET o == HistoryBody(assets, query, fail)
           h == ExceptHandler(o, "history", retry_get_history_window)
       IN  /\ assets' = o.assets
           /\ calls' = calls \o o.calls
           /\ reader_calls' = reader_calls \o o.reads
           /\ attempts' = attempts + 1
           /\ frame_assets' = assets
           /\ outcomes' = Append(outcomes, o.exc)
           /\ pc' = h.pc
           /\ result' = h.result
    /\ UNCHANGED << config_vars, reader_vars, query, attempt_index, no_data, reader_error, slept,
                    sleep_total >>

\* One frame of _get_spot_value (lines 147-200) up to its return, raise or sleep.
_get_spot_value(fail) ==
    /\ pc = "attempt"
    /\ query.kind = "spot"
    /\ fail \in Failures("spot", assets)
    /\ LET o == SpotBody(assets, query, fail)
           h == ExceptHandler(o, "spot", retry_get_spot_value)
       IN  /\ assets' = o.assets
           /\ calls' = calls \o o.calls
           /\ reader_calls' = reader_calls \o o.reads
           /\ attempts' = attempts + 1
           /\ frame_assets' = assets
           /\ outcomes' = Append(outcomes, o.exc)
           /\ pc' = h.pc
           /\ result' = h.result
    /\ UNCHANGED << config_vars, reader_vars, query, attempt_index, no_data, reader_error, slept,
                    sleep_total >>

\* Variant: the recursive call is made at once, without the sleep.
sleep_NoDelay ==
    /\ pc = "sleep"
    /\ attempt_index' = attempt_index + 1
    /\ pc' = "attempt"
    /\ UNCHANGED << config_vars, reader_vars, query, assets, no_data, reader_error, calls, reader_calls,
                    attempts, frame_assets, outcomes, slept, sleep_total, result >>

\* Variant: the recursive call passes attempt_index on unchanged.
sleep_SameIndex ==
    /\ pc = "sleep"
    /\ slept' = slept + 1
    /\ sleep_total' = sleep_total + retry_delay
    /\ pc' = "attempt"
    /\ UNCHANGED << config_vars, reader_vars, query, assets, attempt_index, no_data, reader_error, calls,
                    reader_calls, attempts, frame_assets, outcomes, result >>

\* sleep(self.retry_delay), then the recursive call with attempt_index + 1
\* (lines 103-111 and 192-194).
sleep ==
    /\ pc = "sleep"
    /\ slept' = slept + 1
    /\ sleep_total' = sleep_total + retry_delay
    /\ attempt_index' = attempt_index + 1
    /\ pc' = "attempt"
    /\ UNCHANGED << config_vars, reader_vars, query, assets, no_data, reader_error, calls, reader_calls,
                    attempts, frame_assets, outcomes, result >>

\* ----------------------------------------------------------- specifications
\* DataPortalExchangeBase.__init__ (lines 39-47)
BaseInit ==
    /\ exchanges \in { ExchangeNames, {"bitfinex"} }
    /\ dict_order \in Permutations_(ExchangeNames)
    /\ retry_get_history_window = DefaultRetryGetHistoryWindow
    /\ retry_get_spot_value = DefaultRetryGetSpotValue
    /\ retry_delay = DefaultRetryDelay

NoCall ==
    /\ query = NoQuery
    /\ assets = NoQuery.assets
    /\ attempt_index = 0
    /\ no_data = {}
    /\ reader_error = ""
    /\ calls = <<>>
    /\ reader_calls = <<>>
    /\ attempts = 0
    /\ frame_assets = NoQuery.assets
    /\ outcomes = <<>>
    /\ slept = 0
    /\ sleep_total = 0
    /\ result = NoResult

\* A portal of either class, constructed over a disk that holds bundles for
\* every exchange.
Init ==
    /\ mode \in {"live", "backtest"}
    /\ BaseInit
    /\ listdir = [ n \in ExchangeNames |-> [oserror |-> FALSE, folders |-> <<1>>] ]
    /\ ingest_date = IngestDates
    /\ LET r == IF mode = "backtest" THEN BacktestInit.readers ELSE << >>
       IN  /\ daily_bar_readers = [ n \in DOMAIN r |-> r[n].daily ]
           /\ five_minute_bar_readers = [ n \in DOMAIN r |-> r[n].five_minute ]
           /\ minute_bar_readers = [ n \in DOMAIN r |-> r[n].minute ]
    /\ ctor_error = ""
    /\ pc = "idle"
    /\ NoCall

Next ==
    \/ /\ pc = "idle"
       /\ \E as \in AssetLists, field \in Fields, data_frequency \in DataFrequencies :
             get_history_window(as, field, data_frequency)
    \/ /\ pc = "idle"
       /\ \E as \in AssetLists \cup SinglePairs, field \in Fields,
             data_frequency \in DataFrequencies :
             \E nd \in NoData(as), re \in ReaderErrors :
                /\ (nd = {}) = (re = "")
                /\ get_spot_value(as, field, data_frequency, nd, re)
    \/ /\ pc = "attempt"
       /\ \E fail \in Failures("history", assets) : _get_history_window(fail)
    \/ /\ pc = "attempt"
       /\ \E fail \in Failures("spot", assets) : _get_spot_value(fail)
    \/ sleep

Spec == Init /\ [][Next]_vars

\* One thread runs a call to its end: a frame that has been entered runs
\* (each exchange call returns or raises) and a sleep returns.
Attempt ==
    \/ \E fail \in Failures("history", assets) : _get_history_window(fail)
    \/ \E fail \in Failures("spot", assets) : _get_spot_value(fail)

\* The calls of Next on one field, a supported and an unsupported frequency
\* and lists of at most MaxLiveLen instruments.
LiveLists == { as \in AssetLists : Len(as.items) <= MaxLiveLen }
LiveFrequencies == {"minute", "hourly"}

NextLive ==
    \/ /\ pc = "idle"
       /\ \E as \in LiveLists, data_frequency \in LiveFrequencies :
             get_history_window(as, "close", data_frequency)
    \/ /\ pc = "idle"
       /\ \E as \in LiveLists \cup SinglePairs, data_frequency \in LiveFrequencies :
             \E nd \in NoData(as), re \in ReaderErrors :
                /\ (nd = {}) = (re = "")
                /\ get_spot_value(as, "close", data_frequency, nd, re)
    \/ /\ pc = "attempt"
       /\ \E fail \in Failures("history", assets) : _get_history_window(fail)
    \/ /\ pc = "attempt"
       /\ \E fail \in Failures("spot", assets) : _get_spot_value(fail)
    \/ sleep

SpecLive == Init /\ [][NextLive]_vars /\ WF_vars(Attempt) /\ WF_vars(sleep)

\* A backtest portal under construction, over any disk.
InitCtor ==
    /\ mode = "backtest"
    /\ BaseInit
    /\ listdir \in [ ExchangeNames -> Listings ]
    /\ ingest_date = IngestDates
    /\ daily_bar_readers = << >>
    /\ five_minute_bar_readers = << >>
    /\ minute_bar_readers = << >>
    /\ ctor_error = ""
    /\ pc = "new"
    /\ NoCall

NextCtor == Backtest__init__

SpecCtor == InitCtor /\ [][NextCtor]_vars

\* ================================================================== claims
Done == pc = "done"
Limit == IF query.kind = "history" THEN retry_get_history_window ELSE retry_get_spot_value
ExchangesOf(as) == { as.items[i].exchange : i \in 1..Len(as.items) }
IsMultiSource(as) == ~as.pair /\ Cardinality(ExchangesOf(as)) >= 2
IsSingleSourceList(as) == ~as.pair /\ Cardinality(ExchangesOf(as)) = 1
NoFail == [at |-> 0, type |-> ""]
Last(s) == s[Len(s)]

\* The outcome of the top-level query when no exchange handle ever raises.
FailureFree ==
    IF query.kind = "history" THEN HistoryBody(query.assets, query, NoFail)
    ELSE SpotBody(query.assets, query, NoFail)

AllTransient == Len(outcomes) >= 1 /\ \A i \in 1..Len(outcomes) : outcomes[i] = "ExchangeRequestError"

\* C1: when the dispatch raises ExchangeRequestError on k attempts, k below
\* the attempt limit, and then succeeds, the top-level call returns the
\* result the same query returns when nothing fails.
C1_RetriedResultEqualsFailureFree ==
    (Done /\ slept >= 1 /\ result.status = "returned" /\ FailureFree.status = "return")
        => result.value = FailureFree.value

\* C2: when every attempt raises ExchangeRequestError, a call with attempt
\* limit N makes exactly N+1 attempts (indices 0..N) and raises
\* ExchangeBarDataError with attempts = N.
C2_ExhaustionAfterLimitPlusOne ==
    /\ AllTransient => attempts <= Limit + 1
    /\ (Done /\ AllTransient) =>
          /\ attempts = Limit + 1
          /\ attempt_index = Limit
          /\ result.status = "raised"
          /\ result.error.type = "ExchangeBarDataError"
          /\ result.error.attempts = Limit
    /\ (Done /\ result.error.type = "ExchangeBarDataError") => AllTransient

C2_Witness ==
    Done /\ AllTransient /\ attempts = DefaultRetryGetSpotValue + 1 /\ query.kind = "spot"

\* C3: an error that is not ExchangeRequestError reaches the caller from the
\* attempt that raised it: no later attempt, no sleep after it, and it is
\* not wrapped in ExchangeBarDataError.
C3_NonTransientPropagates ==
    (Len(outcomes) >= 1 /\ Last(outcomes) \notin {"", "ExchangeRequestError"}) =>
        /\ Done
        /\ result.status = "raised"
        /\ result.error.type = Last(outcomes)
        /\ result.error.at = attempt_index
        /\ attempts = attempt_index + 1
        /\ slept = attempt_index
        /\ \A i \in 1..Len(calls) : calls[i].attempt <= attempt_index
        /\ \A i \in 1..(Len(outcomes) - 1) : outcomes[i] = "ExchangeRequestError"

C3_Witness ==
    Done /\ result.error.type = "KeyError" /\ IsMultiSource(query.assets) /\ Len(calls) = 1

CallsOfAttempt(k) == SelectSeq(calls, LAMBDA c : c.attempt = k)

RECURSIVE FlattenValues(_)
FlattenValues(cs) == IF cs = <<>> THEN <<>> ELSE Head(cs).value.val \o FlattenValues(Tail(cs))

Count(s, e) == Cardinality({ i \in 1..Len(s) : s[i] = e })
SameBag(s, t) ==
    /\ Len(s) = Len(t)
    /\ \A e \in Range(s) \cup Range(t) : Count(s, e) = Count(t, e)

C5_SingleSourceRawResult ==
    (Done /\ result.status = "returned" /\ Cardinality(ExchangesOf(query.assets)) = 1) =>
        /\ Len(CallsOfAttempt(attempt_index)) = 1
        /\ LET c == Last(calls)
           IN  /\ c.attempt = attempt_index
               /\ c.exchange \in ExchangesOf(query.assets)
               /\ c.assets = query.assets
               /\ c.field = query.field
               /\ c.freq = query.data_frequency
               /\ result.value = c.value

C5_Witness ==
    /\ Done /\ result.status = "returned" /\ query.kind = "spot"
    /\ IsSingleSourceList(query.assets)
    /\ Len(query.assets.items) = 1
    /\ slept >= 1

RECURSIVE ExchangesCalled(_)
ExchangesCalled(cs) == IF cs = <<>> THEN <<>> ELSE <<Head(cs).exchange>> \o ExchangesCalled(Tail(cs))

IsPrefix(s, t) == Len(s) <= Len(t) /\ \A i \in 1..Len(s) : s[i] = t[i]

\* C6: the exchanges of a multi-exchange query are dispatched in the order
\* in which each is first seen in the caller's instrument list.
C6_DispatchInFirstSeenOrder ==
    (attempts >= 1 /\ IsMultiSource(query.assets) /\ ExchangesOf(query.assets) \subseteq exchanges) =>
        IsPrefix(ExchangesCalled(CallsOfAttempt(0)), FirstSeen(query.assets.items))

\* What the backtest lookup owes for one instrument: None where the reader
\* raises, the reader's value elsewhere.
Owed(c, j) ==
    IF c.assets.items[j].sid \in no_data THEN None_
    ELSE ReaderValue(ReaderTier(c.freq), c.exchange, ReaderDict(ReaderTier(c.freq))[c.exchange],
                     c.assets.items[j].sid, c.field)

IsBacktestLookup(c) ==
    /\ mode = "backtest"
    /\ c.op = "get_exchange_spot_value"
    /\ ~c.assets.pair
    /\ ReaderTier(c.freq) # ""

\* C7: a backtest lookup over a list returns, whatever instruments the
\* reader raises for, a sequence of the list's length with None at exactly
\* the failing positions and the reader's value elsewhere, in input order;
\* for a one-element list the value or None itself; nothing is raised.
C7_BacktestSentinelPerInstrument ==
    \A i \in 1..Len(calls) :
        LET c == calls[i] IN
        IsBacktestLookup(c) =>
            /\ c.outcome = "return"
            /\ IF Len(c.assets.items) >= 2
               THEN /\ c.value.shape = "list"
                    /\ Len(c.value.val) = Len(c.assets.items)
                    /\ \A j \in 1..Len(c.assets.items) : c.value.val[j] = Owed(c, j)
               ELSE c.value = Scalar(Owed(c, 1))

C7_Witness ==
    \E i \in 1..Len(calls) :
        LET c == calls[i] IN
        /\ IsBacktestLookup(c)
        /\ Len(c.assets.items) = 3
        /\ c.assets.items[2].sid \in no_data
        /\ c.assets.items[1].sid \notin no_data
        /\ c.assets.items[3].sid \notin no_data

IsUnsupportedSpot ==
    /\ mode = "backtest"
    /\ query.kind = "spot"
    /\ query.data_frequency \notin {"minute", "5-minute", "daily"}

FailsUnretriedBeforeReaders ==
    /\ result.status = "raised"
    /\ result.error.type \in {"ValueError", "KeyError"}
    /\ reader_calls = <<>>
    /\ attempts = 1
    /\ slept = 0

\* C8 as stated: a backtest spot query with an unsupported frequency fails
\* with a configuration error before any get_value, in one attempt, no sleep.
C8_UnsupportedFrequencyFails ==
    (Done /\ IsUnsupportedSpot) => FailsUnretriedBeforeReaders

\* C8 amended: the same, for a query that names at least one instrument.
C8_UnsupportedFrequencyFailsNonEmpty ==
    /\ (Done /\ IsUnsupportedSpot /\ query.assets.items # <<>>) => FailsUnretriedBeforeReaders
    /\ IsUnsupportedSpot => (reader_calls = <<>> /\ slept = 0 /\ pc # "sleep")

C8_Witness ==
    /\ Done /\ IsUnsupportedSpot
    /\ result.error.type = "ValueError"
    /\ IsMultiSource(query.assets)

HasSnapshot(n) == ~listdir[n].oserror /\ listdir[n].folders # <<>>

IsMostRecent(n, folder) ==
    /\ folder \in Range(listdir[n].folders)
    /\ \A f \in Range(listdir[n].folders) : ingest_date[f] <= ingest_date[folder]

\* C9: construction opens, for every configured exchange, the daily,
\* five-minute and minute readers against one and the same folder, whose
\* ingestion timestamp is the maximum among the exchange's folders; if a
\* configured exchange has no folder (directory missing or empty),
\* construction fails with BundleNotFoundError naming such an exchange.
C9_MostRecentSnapshotOrBundleNotFound ==
    pc # "new" =>
        /\ (ctor_error = "") <=> (\A n \in exchanges : HasSnapshot(n))
        /\ (pc = "failed") <=> (ctor_error # "")
        /\ ctor_error # "" => (ctor_error \in exchanges /\ ~HasSnapshot(ctor_error))
        /\ ctor_error = "" => DOMAIN daily_bar_readers = exchanges
        /\ DOMAIN five_minute_bar_readers = DOMAIN daily_bar_readers
        /\ DOMAIN minute_bar_readers = DOMAIN daily_bar_readers
        /\ \A n \in DOMAIN daily_bar_readers :
              /\ IsMostRecent(n, daily_bar_readers[n])
              /\ five_minute_bar_readers[n] = daily_bar_readers[n]
              /\ minute_bar_readers[n] = daily_bar_readers[n]

C9_Witness ==
    /\ pc = "idle"
    /\ exchanges = ExchangeNames
    /\ \E n \in exchanges :
          /\ Len(listdir[n].folders) = 3
          /\ daily_bar_readers[n] = listdir[n].folders[2]
          /\ ingest_date[listdir[n].folders[1]] < ingest_date[listdir[n].folders[3]]
          /\ ingest_date[listdir[n].folders[3]] < ingest_date[listdir[n].folders[2]]

\* C10: a spot query for one bare instrument, with nothing failing, is
\* dispatched once to the owning exchange and returns a scalar, in the
\* live and in the backtest portal.
C10_SinglePairReturnsScalar ==
    (/\ Done /\ query.kind = "spot" /\ query.assets.pair
     /\ query.assets.items[1].exchange \in exchanges
     /\ (mode = "backtest" => ReaderTier(query.data_frequency) # "")
     /\ attempts = 1
     /\ outcomes[1] \notin HandleErrors) =>
        /\ result.status = "returned"
        /\ result.value.shape = "scalar"
        /\ Len(calls) = 1
        /\ calls[1].exchange = query.assets.items[1].exchange

\* C11: every top-level call terminates: once its first frame is entered it
\* ends with a result or an error, after at most limit+1 attempts and at
\* most limit sleeps; attempt_index changes only by the +1 of a retry and
\* never exceeds the limit.
C11_EveryCallTerminates ==
    /\ [](attempt_index <= Limit /\ attempts <= Limit + 1 /\ slept <= Limit)
    /\ [](Done => result.status \in {"returned", "raised"})
    /\ [][attempt_index' # attempt_index
            => (pc = "sleep" /\ pc' = "attempt" /\ attempt_index' = attempt_index + 1)]_vars
    /\ [][(pc = "sleep" /\ pc' = "attempt") => attempt_index' = attempt_index + 1]_vars
    /\ (pc = "attempt") ~> Done

C11_Witness ==
    Done /\ attempts = Limit + 1 /\ slept = Limit /\ result.status = "returned"

\* The instruments of a sequence of calls, call after call.
RECURSIVE AssetsCalled(_)
AssetsCalled(cs) == IF cs = <<>> THEN <<>> ELSE Head(cs).assets.items \o AssetsCalled(Tail(cs))

\* A sequence of instruments in which those of one exchange are adjacent.
IsGroupedBySource(items) ==
    \A i, j, k \in 1..Len(items) :
        (i < j /\ j < k /\ items[i].exchange = items[k].exchange)
            => items[j].exchange = items[i].exchange

FailureFreeMulti(kind) ==
    /\ Done /\ query.kind = kind /\ attempts = 1 /\ result.status = "returned"
    /\ IsMultiSource(query.assets)

\* C12: a spot query over several exchanges that meets no failure returns
\* the per-exchange results concatenated in the order of the partition (the
\* order its exchanges were dispatched in), each exchange's values in the
\* order of its instruments in the caller's list; the output is grouped by
\* exchange, the caller's order is not restored.
C12_SpotMergedInPartitionOrder ==
    FailureFreeMulti("spot") =>
        /\ result.value.shape = "list"
        /\ result.value.val = FlattenValues(calls)
        /\ IsInjective(ExchangesCalled(calls))
        /\ Range(ExchangesCalled(calls)) = ExchangesOf(query.assets)
        /\ \A i \in 1..Len(calls) :
              calls[i].assets.items
                  = SelectSeq(query.assets.items, LAMBDA a : a.exchange = calls[i].exchange)
        /\ Len(result.value.val) = Len(AssetsCalled(calls))
        /\ \A i \in 1..Len(result.value.val) :
              \/ result.value.val[i] = None_ /\ AssetsCalled(calls)[i].sid \in no_data
              \/ /\ result.value.val[i].of = <<AssetsCalled(calls)[i].sid>>
                 /\ result.value.val[i].exchange = AssetsCalled(calls)[i].exchange
        /\ IsGroupedBySource(AssetsCalled(calls))

C12_Witness ==
    /\ FailureFreeMulti("spot")
    /\ Len(query.assets.items) = 3
    /\ query.assets.items[1].exchange = "bitfinex"
    /\ query.assets.items[2].exchange = "poloniex"
    /\ query.assets.items[3].exchange = "bitfinex"
    /\ query.assets.items[1].sid # query.assets.items[3].sid
    /\ calls[1].exchange = "poloniex"

\* C13: after an attempt of a multi-exchange query ends in
\* ExchangeRequestError, the next attempt partitions and dispatches the
\* caller's original instrument list again: every frame is entered with the
\* original list and every call carries the full subset of its exchange and
\* the query's other parameters.
C13_RetryDispatchesOriginalList ==
    (IsMultiSource(query.assets) /\ ExchangesOf(query.assets) \subseteq exchanges) =>
        /\ pc = "attempt" => assets = query.assets
        /\ attempts >= 1 => frame_assets = query.assets
        /\ \A i \in 1..Len(calls) :
              /\ calls[i].assets.items
                    = SelectSeq(query.assets.items, LAMBDA a : a.exchange = calls[i].exchange)
              /\ calls[i].field = query.field
              /\ calls[i].freq = query.data_frequency
        /\ (Done /\ result.status = "returned") =>
              Range(ExchangesCalled(CallsOfAttempt(attempt_index))) = ExchangesOf(query.assets)

\* C14: one sleep of retry_delay lies between any two consecutive attempts,
\* after the failure of the earlier and before the later starts; there is
\* none before the first attempt, after a success or after the last failing
\* attempt; the sleeps are as many as the transient failures that were
\* retried.
C14_OneDelayBetweenAttempts ==
    /\ slept = attempt_index
    /\ sleep_total = slept * retry_delay
    /\ pc \in {"idle", "attempt"} => attempts = slept
    /\ pc \in {"sleep", "done"} => attempts = slept + 1
    /\ pc = "sleep" => (Last(outcomes) = "ExchangeRequestError" /\ attempt_index < Limit)
    /\ Len(outcomes) = attempts
    /\ \A i \in 1..Len(outcomes) :
          i <= slept => outcomes[i] = "ExchangeRequestError"
    /\ Done => \/ Last(outcomes) # "ExchangeRequestError"
               \/ attempt_index = Limit

C14_Witness ==
    /\ Done /\ result.status = "raised" /\ result.error.type = "ExchangeBarDataError"
    /\ slept = Limit /\ sleep_total = Limit * DefaultRetryDelay

\* C15: in an attempt that completes without error, every exchange that
\* owns an instrument of the query gets exactly one call, with exactly its
\* instruments of the query in input order and the query's other
\* parameters; no other exchange is called.
C15_EachOwningSourceCalledOnce ==
    (Done /\ result.status = "returned") =>
        LET cs == CallsOfAttempt(attempt_index) IN
        /\ IsInjective(ExchangesCalled(cs))
        /\ Range(ExchangesCalled(cs)) = ExchangesOf(query.assets)
        /\ \A i \in 1..Len(cs) :
              /\ cs[i].assets.items
                    = SelectSeq(query.assets.items, LAMBDA a : a.exchange = cs[i].exchange)
              /\ cs[i].field = query.field
              /\ cs[i].freq = query.data_frequency

\* C16: when the retries are exhausted the error raised carries the data
\* type of the operation ('history' or 'spot') and, as its cause, the
\* ExchangeRequestError of the last attempt.
C16_TerminalErrorTagAndCause ==
    (Done /\ Last(outcomes) = "ExchangeRequestError") =>
        /\ result.status = "raised"
        /\ result.error.type = "ExchangeBarDataError"
        /\ result.error.data_type = query.kind
        /\ result.error.attempts = Limit
        /\ result.error.at = attempts - 1
        /\ Last(calls).attempt = attempts - 1
        /\ Last(calls).outcome = "ExchangeRequestError"
        /\ result.error.exchange = Last(calls).exchange

C16_Witness ==
    /\ Done /\ Last(outcomes) = "ExchangeRequestError" /\ query.kind = "spot"
    /\ IsMultiSource(query.assets)
    /\ calls[1].exchange # Last(calls).exchange

\* C17: a history query over several exchanges that meets no failure
\* returns the concatenation of the tables its per-exchange calls returned:
\* one table per exchange, each exactly once, in the order of the partition
\* (the order the exchanges were dispatched in).
C17_HistoryConcatInPartitionOrder ==
    FailureFreeMulti("history") =>
        /\ result.value.shape = "DataFrame"
        /\ result.value.val = FlattenValues(calls)
        /\ Len(result.value.val) = Cardinality(ExchangesOf(query.assets))
        /\ Len(calls) = Cardinality(ExchangesOf(query.assets))
        /\ IsInjective(ExchangesCalled(calls))
        /\ Range(ExchangesCalled(calls)) = ExchangesOf(query.assets)
        /\ \A i \in 1..Len(result.value.val) :
              /\ result.value.val[i].exchange = calls[i].exchange
              /\ result.value.val[i].of
                    = Sids(SelectSeq(query.assets.items,
                                     LAMBDA a : a.exchange = calls[i].exchange))

C17_Witness ==
    /\ FailureFreeMulti("history")
    /\ Len(query.assets.items) = 3
    /\ Len(result.value.val) = 2
    /\ query.assets.items[1].exchange = "bitfinex"
    /\ result.value.val[1].exchange = "poloniex"

\* C18: a spot lookup of the backtest portal is never retried because a
\* reader failed: whatever get_value raises, ExchangeRequestError included,
\* becomes None for that instrument, so the call makes one attempt, never
\* sleeps and never raises ExchangeBarDataError.
C18_ReaderFailureNeverRetried ==
    (mode = "backtest" /\ query.kind = "spot") =>
        /\ attempts <= 1
        /\ slept = 0
        /\ pc # "sleep"
        /\ \A i \in 1..Len(outcomes) : outcomes[i] \notin ReaderErrors \ {""}
        /\ \A i \in 1..Len(calls) : calls[i].outcome \notin ReaderErrors \ {""}
        /\ result.error.type \notin {"ExchangeBarDataError"} \cup (ReaderErrors \ {""})
        /\ (Done /\ result.status = "returned") =>
              \A i \in 1..Len(result.value.val) :
                  AssetsCalled(calls)[i].sid \in no_data => result.value.val[i] = None_

C18_Witness ==
    /\ Done /\ mode = "backtest" /\ query.kind = "spot"
    /\ reader_error = "ExchangeRequestError"
    /\ result.status = "returned"
    /\ Len(reader_calls) = 3
    /\ None_ \in Range(result.value.val)
    /\ IsMultiSource(query.assets)

\* C19: a query with an empty instrument list calls no exchange and no
\* reader and is never retried: get_spot_value returns an empty list,
\* get_history_window raises IndexError (the first key of an empty
\* partition), which reaches the caller as it is.
C19_EmptyInstrumentList ==
    (~query.assets.pair /\ query.assets.items = <<>> /\ query.kind # "") =>
        /\ calls = <<>>
        /\ reader_calls = <<>>
        /\ slept = 0
        /\ pc \in {"attempt", "done"}
        /\ Done =>
              /\ attempts = 1
              /\ query.kind = "spot" => result = Returned(List(<<>>))
              /\ query.kind = "history" => result = Raised(Error("IndexError", 0, ""))

C19_Witness ==
    /\ Done /\ query.assets.items = <<>> /\ query.kind = "history"
    /\ result.error.type = "IndexError"

\* The dict most_recent_bundle after each iteration of the scan of an
\* exchange's listing (before the first one at index 1).
ScanStates(n) ==
    [ k \in 1..(Len(listdir[n].folders) + 1) |->
        MostRecentScan(EmptyBundle, SubSeq(listdir[n].folders, 1, k - 1)) ]

\* The first folder of a listing, in scan order, whose timestamp is the
\* listing's latest.
IsFirstMostRecent(n, folder) ==
    \E i \in 1..Len(listdir[n].folders) :
        /\ listdir[n].folders[i] = folder
        /\ \A j \in 1..Len(listdir[n].folders) :
              ingest_date[listdir[n].folders[j]] <= ingest_date[folder]
        /\ \A j \in 1..(i - 1) :
              ingest_date[listdir[n].folders[j]] < ingest_date[folder]

\* C20: when several folders share the latest timestamp,
\* find_most_recent_time returns the one met first in scan order (a folder
\* replaces the one retained only when strictly later), and the scan never
\* retains more than one folder.
C20_TieKeepsFirstScanned ==
    pc # "new" =>
        \A n \in DOMAIN daily_bar_readers :
            /\ IsFirstMostRecent(n, daily_bar_readers[n])
            /\ find_most_recent_time(n) = daily_bar_readers[n]
            /\ \A k \in DOMAIN ScanStates(n) :
                  /\ Cardinality(DOMAIN ScanStates(n)[k]) <= 1
                  /\ k >= 2 => Cardinality(DOMAIN ScanStates(n)[k]) = 1

C20_Witness ==
    /\ pc = "idle"
    /\ \E n \in DOMAIN daily_bar_readers :
          /\ Len(listdir[n].folders) = 3
          /\ daily_bar_readers[n] = listdir[n].folders[2]
          /\ ingest_date[listdir[n].folders[2]] = ingest_date[listdir[n].folders[3]]
          /\ ingest_date[listdir[n].folders[1]] < ingest_date[listdir[n].folders[2]]

====
